---- MODULE Spec2Model ----
(***************************************************************************)
(* AECyberTV match reminders worker (aecybertv_match_reminders.py).        *)
(*                                                                         *)
(* One asyncio event loop runs everything: code between two awaits is one  *)
(* atomic step.  A coroutine is suspended only at an await of a network    *)
(* call (league fetch, fixture fetch, send_message); every action below    *)
(* resumes one coroutine and runs it to its next suspension point.         *)
(*                                                                         *)
(* Time is minutes of Asia/Dubai wall clock counted from midnight of the   *)
(* first modelled day; the provider's fixture dates are UTC minutes.       *)
(***************************************************************************)
EXTENDS Integers, Sequences, FiniteSets, TLC

VARIABLES
    now,             \* datetime.now(TZ), in Dubai minutes
    ahead,           \* the later instants at which the clock will be observed
    feed,            \* what the data provider currently serves
    LEAGUES_CACHE,   \* insertion-ordered dict: sequence of [country, leagues]
    SUBSCRIBERS,     \* set of chat ids
    SCHEDULED_KEYS,  \* dedup ledger, set of job keys
    jobs,            \* job_queue: every reminder job ever added, in order
    triggers,        \* job_queue: the boot-pull and autoday-pull jobs in it
    pulls            \* every pull_and_schedule coroutine ever started

vars == <<now, ahead, feed, LEAGUES_CACHE, SUBSCRIBERS, SCHEDULED_KEYS, jobs, triggers, pulls>>

----------------------------------------------------------------------------
(* Bounds of the model                                                     *)

NumChats == 2      \* chat ids that may subscribe
MaxPulls == 2      \* pull cycles started in one behaviour
MaxDaily == 2      \* /autoday_on commands in one behaviour
MaxRunning == 1    \* reminder broadcasts in flight at the same time

Chats == 1 .. NumChats

\* The instants at which the clock is observed: 08:50, 09:00, 13:45 and 14:00
\* of the first day, 00:10 and 00:30 of the second.
Instants == <<530, 540, 825, 840, 1450, 1470>>

----------------------------------------------------------------------------
(* Configuration                                                           *)

TZ_OFFSET == 4 * 60                 \* Asia/Dubai is UTC+04:00, no DST
DayLen == 24 * 60
COUNTRIES == <<"Spain", "England">> \* the first two of the six tracked
REMINDER_OFFSETS == <<60, 15, 0>>
DAILY_PULL_TIME == 9 * 60           \* 09:00 Dubai

----------------------------------------------------------------------------
(* Provider data                                                           *)

\* League ids: the league of the i-th tracked country has id i.
Leagues == 1 .. Len(COUNTRIES)

CountryIndex(c) == CHOOSE i \in 1 .. Len(COUNTRIES) : COUNTRIES[i] = c

\* An item of the /leagues response.  id = 0 stands for a missing league id,
\* seasons is the length of the "seasons" list.
LeagueItem(i) == [id |-> i, seasons |-> 1]
NoSeasons(i) == [id |-> i, seasons |-> 0]
NoLeagueId == [id |-> 0, seasons |-> 1]

\* The /leagues response for a country: its one league, for the first
\* country after two items that the cycle skips.
LeagueList(c) ==
    LET i == CountryIndex(c)
    IN  IF i = 1 THEN <<NoSeasons(i), NoLeagueId, LeagueItem(i)>>
        ELSE <<LeagueItem(i)>>

\* A fixture record of the /fixtures response.  date is the instant of
\* fixture.date in UTC minutes, iso tells whether the string parses, teams
\* whether teams/league/id are all present.
KickoffUTC(id) == IF id % 2 = 1 THEN 14 * 60 - TZ_OFFSET
                  ELSE DayLen + 30 - TZ_OFFSET

Fx(id) == [id |-> id, date |-> KickoffUTC(id), iso |-> TRUE, teams |-> TRUE]
NoTeams(id) == [Fx(id) EXCEPT !.teams = FALSE]
NoDate(id) == [Fx(id) EXCEPT !.iso = FALSE]

FixtureLists ==
    { <<Fx(1)>>, <<NoDate(1), NoTeams(1), Fx(2)>> }

\* The outcome of one awaited network call.
Fail == [ok |-> FALSE, items |-> <<>>]
Ok(items) == [ok |-> TRUE, items |-> items]

\* A provider whose fixture lists are chosen afresh at every call, or one that
\* serves the same list for a league on every call.
FreeFeed == [frozen |-> FALSE, fixtures |-> [l \in Leagues |-> <<>>]]

FrozenFeeds == { [frozen |-> TRUE, fixtures |-> fs] : fs \in [Leagues -> FixtureLists] }

\* api_get raises (HTTP error, timeout) or returns the response.
LeagueResponses(c) == {Fail, Ok(LeagueList(c))}

FixtureResponses(league_id) ==
    {Fail} \cup { Ok(F) : F \in IF feed.frozen THEN {feed.fixtures[league_id]}
                                ELSE FixtureLists }

----------------------------------------------------------------------------
(* Time                                                                    *)

LocalDate(t) == t \div DayLen       \* .date() of a Dubai datetime

\* datetime.fromisoformat(...).astimezone(TZ): the kickoff on the Dubai clock,
\* as pull_and_schedule (line 192) and the planner (line 110) each compute it
ParseKO(fx) == fx.date + TZ_OFFSET

\* A planner that shifts the converted kickoff by the zone offset once more.
KickoffShiftedTwice(fx) == fx.date + TZ_OFFSET + TZ_OFFSET
KickoffOf(fx) == fx.date + TZ_OFFSET

----------------------------------------------------------------------------
(* Small helpers                                                           *)

Min(S) == CHOOSE x \in S : \A y \in S : x <= y

RECURSIVE ListOf(_)
\* list(SUBSCRIBERS): the snapshot a broadcast iterates over.
ListOf(S) == IF S = {} THEN <<>> ELSE <<Min(S)>> \o ListOf(S \ {Min(S)})

Range(s) == { s[i] : i \in DOMAIN s }

----------------------------------------------------------------------------
(* LEAGUES_CACHE                                                           *)

CacheHas(cache, c) == \E i \in DOMAIN cache : cache[i].country = c

\* LEAGUES_CACHE[c] = leagues: a new key goes last, an old key keeps its place.
CachePut(cache, c, leagues) ==
    IF CacheHas(cache, c)
    THEN [i \in DOMAIN cache |->
            IF cache[i].country = c THEN [country |-> c, leagues |-> leagues]
            ELSE cache[i]]
    ELSE Append(cache, [country |-> c, leagues |-> leagues])

----------------------------------------------------------------------------
(* Job queue                                                               *)

job_key(fixture_id, offset_min) == <<fixture_id, offset_min>>

JobName(tag, fixture_id, offset_min) ==
    [tag |-> tag, fixture_id |-> fixture_id, offset |-> offset_min]

\* job_queue.run_once(send_reminder_job, when=when, data=..., name="fx:id:mins")
\* state: "active" waiting, "running" its callback is suspended at the send to
\* snap[i], "done" fired and gone, "removed" taken out by schedule_removal.
\* subs0 and by are history: the subscriber set when the job was added and
\* the cycle that added it.
\* A job queued for the kickoff whatever its offset.
ReminderJobAtKickoff(fixture_id, mins, ko, when) ==
    [name |-> JobName("fx", fixture_id, mins),
     when |-> ko, ko |-> ko, state |-> "active",
     snap |-> <<>>, i |-> 0, failed |-> {}, subs0 |-> {}, by |-> 0]

ReminderJob(fixture_id, mins, ko, when) ==
    [name |-> JobName("fx", fixture_id, mins),
     when |-> when, ko |-> ko, state |-> "active",
     snap |-> <<>>, i |-> 0, failed |-> {}, subs0 |-> {}, by |-> 0]

\* job_queue.run_daily(pull_and_schedule, time=DAILY_PULL_TIME, name="autoday-pull"):
\* the first run is the next 09:00.
NextDailyRun(t) ==
    IF t % DayLen < DAILY_PULL_TIME
    THEN LocalDate(t) * DayLen + DAILY_PULL_TIME
    ELSE (LocalDate(t) + 1) * DayLen + DAILY_PULL_TIME

DailyJob(t) == [name |-> JobName("autoday-pull", 0, 0), when |-> NextDailyRun(t)]

\* app.job_queue.run_once(pull_and_schedule, when=5, name="boot-pull")
BootJob(t) == [name |-> JobName("boot-pull", 0, 0), when |-> t]

----------------------------------------------------------------------------
(* Reminder planner: schedule_reminders_for_fixture                        *)

\* the try block of lines 108-116: any missing field returns 0
FixtureFieldsOk(fx) == fx.iso /\ fx.teams

KickoffStarted(ko, t) == ko <= t          \* if ko <= now: return 0

\* A planner that still plans a reminder whose instant is exactly now.
WindowPassedStrictly(when, t) == when < t
WindowPassed(when, t) == when <= t        \* if when <= now: continue

\* A planner that never finds a key in the ledger.
NeverScheduled(keys, k) == FALSE
AlreadyScheduled(keys, k) == k \in keys   \* if k in SCHEDULED_KEYS: continue

\* A ledger that holds two keys at most and starts afresh when full.
ReserveEvicting(keys, k) == IF Cardinality(keys) >= 2 THEN {k} ELSE keys \cup {k}

\* A planner that forgets to record the key.
ReserveNothing(keys, k) == keys
Reserve(keys, k) == keys \cup {k}         \* SCHEDULED_KEYS.add(k)

RECURSIVE PlanOffsets(_, _, _, _, _)
\* The for loop over REMINDER_OFFSETS from its n-th element on.  st holds
\* SCHEDULED_KEYS, the job queue and the local counter "scheduled".
PlanOffsets(st, fixture_id, ko, t, n) ==
    IF n > Len(REMINDER_OFFSETS) THEN st
    ELSE LET mins == REMINDER_OFFSETS[n]
             when == ko - mins
             k == job_key(fixture_id, mins)
         IN  IF WindowPassed(when, t)
             THEN PlanOffsets(st, fixture_id, ko, t, n + 1)
             ELSE IF AlreadyScheduled(st.keys, k)
             THEN PlanOffsets(st, fixture_id, ko, t, n + 1)
             ELSE PlanOffsets(
                    [keys |-> Reserve(st.keys, k),
                     jobs |-> Append(st.jobs, ReminderJob(fixture_id, mins, ko, when)),
                     scheduled |-> st.scheduled + 1],
                    fixture_id, ko, t, n + 1)

\* Returns the ledger and job queue after the call, and the returned count.
schedule_reminders_for_fixture(keys, queue, fx, t) ==
    LET st0 == [keys |-> keys, jobs |-> queue, scheduled |-> 0]
    IN  IF ~FixtureFieldsOk(fx) THEN st0
        ELSE IF KickoffStarted(KickoffOf(fx), t) THEN st0
        ELSE PlanOffsets(st0, fx.id, KickoffOf(fx), t, 1)

\* The keys whose ledger check (line 128) a call with this fixture reaches.
KeysTried(fx, t) ==
    IF ~FixtureFieldsOk(fx) \/ KickoffStarted(KickoffOf(fx), t) THEN {}
    ELSE { job_key(fx.id, REMINDER_OFFSETS[n]) : n \in
             { m \in DOMAIN REMINDER_OFFSETS :
                 ~WindowPassed(KickoffOf(fx) - REMINDER_OFFSETS[m], t) } }

\* A cycle that takes every fixture the provider returns as today's.
AnyDateIsToday(fx, today) == FALSE

\* if ko.date() != today: continue
OtherDate(fx, today) == LocalDate(ParseKO(fx)) # today

\* Does the body of "for fx in fixtures" reach schedule_reminders_for_fixture?
Planned(fx, today) == fx.iso /\ ~OtherDate(fx, today)

RECURSIVE ScheduleFixtures(_, _, _, _, _)
\* The loop of lines 189-197 from the n-th fixture on; st holds the ledger,
\* the job queue and total_jobs.
ScheduleFixtures(st, fixtures, n, today, t) ==
    IF n > Len(fixtures) THEN st
    ELSE LET fx == fixtures[n]
         IN  IF ~Planned(fx, today)
             THEN ScheduleFixtures(st, fixtures, n + 1, today, t)
             ELSE LET r == schedule_reminders_for_fixture(st.keys, st.jobs, fx, t)
                  IN  ScheduleFixtures(
                        [keys |-> r.keys, jobs |-> r.jobs,
                         total |-> st.total + r.scheduled],
                        fixtures, n + 1, today, t)

TriedIn(fixtures, today, t) ==
    UNION { KeysTried(fixtures[n], t) :
              n \in { m \in DOMAIN fixtures : Planned(fixtures[m], today) } }

----------------------------------------------------------------------------
(* The pull_and_schedule coroutine                                         *)

\* pc: "leagues"  suspended in ensure_leagues_cache at the fetch for COUNTRIES[ci]
\*     "fixtures" suspended at the fetch for leagues[li] of the pos-th cache entry
\*     "digest"   suspended at the send to snap[si]
\*     "done"     returned;  "raised"  left by an exception
\* used/pos are the dict iterator of LEAGUES_CACHE.items(): the size of the
\* dict when the loop started and the number of entries yielded so far.
\* used stays after the loop, as history.
\* slot, got, bad, tried, after are history: the run time of the trigger, the
\* leagues whose fixtures this cycle fetched and failed to fetch, the keys
\* whose ledger check it has reached while it runs, and the cycles that had
\* ended when this one started.  fetched, history too, holds the countries
\* whose league list the cycle's running ensure_leagues_cache call has
\* fetched and stored.
NewPull(trigger, slot) ==
    [trigger |-> trigger, slot |-> slot, pc |-> "new", ci |-> 0,
     today |-> 0, total_jobs |-> 0, countries_touched |-> 0,
     used |-> 0, pos |-> 0, leagues |-> <<>>, li |-> 0,
     snap |-> <<>>, si |-> 0, failed |-> {},
     got |-> {}, bad |-> {}, tried |-> {}, fetched |-> {},
     after |-> { q \in DOMAIN pulls : pulls[q].pc \in {"done", "raised"} }]

Ended(p, how) ==
    [p EXCEPT !.pc = how, !.ci = 0, !.pos = 0, !.leagues = <<>>,
              !.li = 0, !.snap = <<>>, !.si = 0, !.failed = {}, !.tried = {}]

\* if SUBSCRIBERS and total_jobs > 0
SendsDigest(subs, total_jobs) == subs # {} /\ total_jobs > 0

\* Lines 199-206 up to the first send.
Finish(p) ==
    IF SendsDigest(SUBSCRIBERS, p.total_jobs)
    THEN [p EXCEPT !.pc = "digest", !.snap = ListOf(SUBSCRIBERS), !.si = 1,
                   !.leagues = <<>>, !.li = 0, !.pos = 0]
    ELSE Ended(p, "done")

\* Lines 173-181: an item without league, seasons or league id is skipped.
ValidItem(item) == item.seasons > 0 /\ item.id # 0

NextItem(leagues, i) ==
    LET S == { j \in i .. Len(leagues) : ValidItem(leagues[j]) }
    IN  IF S = {} THEN 0 ELSE Min(S)

RECURSIVE IterScan(_, _)
\* The outer for loop from the next entry of the dict on, up to the first
\* fixture fetch or the end of the loop.
IterScan(p, cache) ==
    IF p.pos >= Len(cache) THEN Finish(p)
    ELSE LET e == cache[p.pos + 1]
             q == [p EXCEPT !.pos = @ + 1, !.countries_touched = @ + 1,
                            !.leagues = e.leagues, !.li = 0]
             j == NextItem(e.leagues, 1)
         IN  IF j # 0 THEN [q EXCEPT !.pc = "fixtures", !.li = j]
             ELSE IterScan(q, cache)

\* dict iterator __next__: "dictionary changed size during iteration"
SizeChanged(used, cache) == Len(cache) # used

IterNext(p, cache) ==
    IF SizeChanged(p.used, cache) THEN Ended(p, "raised")
    ELSE IterScan(p, cache)

\* After the body for leagues[li]: the next item of the same country, or
\* the next entry of the dict.
ResumeLoop(p, cache) ==
    LET j == NextItem(p.leagues, p.li + 1)
    IN  IF j # 0 THEN [p EXCEPT !.li = j] ELSE IterNext(p, cache)

\* A cycle that leaves both loops at the first fixture fetch that fails.
BreakOnFetchError(p, cache) == Finish(p)

\* except Exception: log.warning(...); continue   (lines 185-187)
OnFetchError(p, cache) == ResumeLoop(p, cache)

\* Lines 166-170: today is read once, the iterator is created.
EnterLoop(p, cache) ==
    IterScan([p EXCEPT !.ci = 0, !.today = LocalDate(now), !.total_jobs = 0,
                       !.countries_touched = 0, !.used = Len(cache), !.pos = 0,
                       !.fetched = {}],
             cache)

NextUncached(cache, i) ==
    LET S == { j \in i .. Len(COUNTRIES) : ~CacheHas(cache, COUNTRIES[j]) }
    IN  IF S = {} THEN 0 ELSE Min(S)

\* ensure_leagues_cache from COUNTRIES[i] on, then the rest of the cycle.
AfterEnsure(p, cache, i) ==
    LET j == NextUncached(cache, i)
    IN  IF j # 0 THEN [p EXCEPT !.pc = "leagues", !.ci = j]
        ELSE EnterLoop(p, cache)

InFlight(p) == p.pc \in {"leagues", "fixtures", "digest"}

\* Updates are processed one at a time (Application.builder().build() leaves
\* concurrent_updates off): no command is handled while /today_fixtures runs.
CommandsIdle == \A q \in DOMAIN pulls : pulls[q].trigger = "manual" => ~InFlight(pulls[q])

StartPull(trigger, slot) ==
    /\ Len(pulls) < MaxPulls
    /\ pulls' = Append(pulls, AfterEnsure(NewPull(trigger, slot), LEAGUES_CACHE, 1))

----------------------------------------------------------------------------
(* Actions                                                                 *)

Init ==
    /\ now = Instants[1]
    /\ ahead = Tail(Instants)
    /\ feed = FreeFeed
    /\ LEAGUES_CACHE = <<>>
    /\ SUBSCRIBERS = {}
    /\ SCHEDULED_KEYS = {}
    /\ jobs = <<>>
    /\ triggers = <<BootJob(Instants[1])>>
    /\ pulls = <<>>

\* 12:30, with one fixture list served all afternoon.
InitSubs ==
    /\ now = 750
    /\ ahead = <<825, 840>>
    /\ feed = [frozen |-> TRUE, fixtures |-> [l \in Leagues |-> <<Fx(1)>>]]
    /\ LEAGUES_CACHE = <<>>
    /\ SUBSCRIBERS = {}
    /\ SCHEDULED_KEYS = {}
    /\ jobs = <<>>
    /\ triggers = <<BootJob(750)>>
    /\ pulls = <<>>

\* 08:50, after a boot cycle that reached no provider: nothing cached,
\* nothing scheduled, the boot-pull job gone.  The clock is observed at
\* 09:00 and 14:00 of that day and at 09:00 of the next.
InitDaily ==
    /\ now = 530
    /\ ahead = <<540, 840, 1980>>
    /\ feed = FreeFeed
    /\ LEAGUES_CACHE = <<>>
    /\ SUBSCRIBERS = {}
    /\ SCHEDULED_KEYS = {}
    /\ jobs = <<>>
    /\ triggers = <<>>
    /\ pulls = <<>>

\* 12:30, with two fixtures of league 1 that kick off together at 14:00.
InitLive ==
    /\ now = 750
    /\ ahead = <<825, 840>>
    /\ feed = [frozen |-> TRUE,
               fixtures |-> [l \in Leagues |-> IF l = 1 THEN <<Fx(1), Fx(3)>> ELSE <<>>]]
    /\ LEAGUES_CACHE = <<>>
    /\ SUBSCRIBERS = {}
    /\ SCHEDULED_KEYS = {}
    /\ jobs = <<>>
    /\ triggers = <<BootJob(750)>>
    /\ pulls = <<>>

\* 08:50, after a boot cycle that reached no provider, with one fixture list
\* served all day.  The clock is observed at 09:00, 13:45 and 14:00.
InitAll ==
    /\ now = 530
    /\ ahead = <<540, 825, 840>>
    /\ feed = [frozen |-> TRUE, fixtures |-> [l \in Leagues |-> <<Fx(1)>>]]
    /\ LEAGUES_CACHE = <<>>
    /\ SUBSCRIBERS = {}
    /\ SCHEDULED_KEYS = {}
    /\ jobs = <<>>
    /\ triggers = <<>>
    /\ pulls = <<>>

InitFeed ==
    /\ now = Instants[1]
    /\ ahead = Tail(Instants)
    /\ feed \in FrozenFeeds
    /\ LEAGUES_CACHE = <<>>
    /\ SUBSCRIBERS = {}
    /\ SCHEDULED_KEYS = {}
    /\ jobs = <<>>
    /\ triggers = <<BootJob(Instants[1])>>
    /\ pulls = <<>>

\* A scheduler that runs a job only once its instant lies in the past.
DueStrictlyAfter(j) == jobs[j].state = "active" /\ now > jobs[j].when
Due(j) == jobs[j].state = "active" /\ now >= jobs[j].when
DueTrigger(k) == now >= triggers[k].when

Without(queue, k) == [n \in 1 .. Len(queue) - 1 |-> IF n < k THEN queue[n] ELSE queue[n + 1]]

\* The clock moves on to the next observed instant.  The scheduler runs a due
\* job before that (observed instants are minutes apart), unless the job
\* would start a cycle beyond MaxPulls.
Tick ==
    /\ ahead # <<>>
    /\ \A j \in DOMAIN jobs : ~Due(j)
    /\ \A k \in DOMAIN triggers : DueTrigger(k) => Len(pulls) >= MaxPulls
    /\ now' = Head(ahead)
    /\ ahead' = Tail(ahead)
    /\ UNCHANGED <<feed, LEAGUES_CACHE, SUBSCRIBERS, SCHEDULED_KEYS, jobs, triggers, pulls>>

\* The boot-pull job fires and leaves the queue: one cycle starts.
FireBoot(k) ==
    /\ DueTrigger(k) /\ triggers[k].name.tag = "boot-pull"
    /\ StartPull("boot", triggers[k].when)
    /\ triggers' = Without(triggers, k)
    /\ UNCHANGED <<now, ahead, feed, LEAGUES_CACHE, SUBSCRIBERS, SCHEDULED_KEYS, jobs>>

\* A daily job fires: one cycle starts, the job waits for the next day.
FireDaily(k) ==
    /\ DueTrigger(k) /\ triggers[k].name.tag = "autoday-pull"
    /\ StartPull("daily", triggers[k].when)
    /\ triggers' = [triggers EXCEPT ![k].when = @ + DayLen]
    /\ UNCHANGED <<now, ahead, feed, LEAGUES_CACHE, SUBSCRIBERS, SCHEDULED_KEYS, jobs>>

\* /today_fixtures
today_fixtures ==
    /\ CommandsIdle
    /\ StartPull("manual", now)
    /\ UNCHANGED <<now, ahead, feed, LEAGUES_CACHE, SUBSCRIBERS, SCHEDULED_KEYS, jobs, triggers>>

\* get_current_leagues_for_country returns or raises (lines 82-86).
LeaguesReturn(p, res) ==
    /\ pulls[p].pc = "leagues"
    /\ LET c == COUNTRIES[pulls[p].ci]
           cache == IF res.ok THEN CachePut(LEAGUES_CACHE, c, res.items)
                    ELSE LEAGUES_CACHE
       IN  /\ LEAGUES_CACHE' = cache
           /\ pulls' = [pulls EXCEPT ![p] =
                          AfterEnsure(IF res.ok THEN [@ EXCEPT !.fetched = @ \cup {c}] ELSE @,
                                      cache, @.ci + 1)]
    /\ UNCHANGED <<now, ahead, feed, SUBSCRIBERS, SCHEDULED_KEYS, jobs, triggers>>

\* get_today_fixtures_for_league returns or raises (lines 183-197).
FixturesReturn(p, res) ==
    /\ pulls[p].pc = "fixtures"
    /\ LET me == pulls[p]
           league_id == me.leagues[me.li].id
           st == IF res.ok
                 THEN ScheduleFixtures(
                        [keys |-> SCHEDULED_KEYS, jobs |-> jobs, total |-> me.total_jobs],
                        res.items, 1, me.today, now)
                 ELSE [keys |-> SCHEDULED_KEYS, jobs |-> jobs, total |-> me.total_jobs]
           q == IF res.ok
                THEN [me EXCEPT !.total_jobs = st.total,
                                !.got = @ \cup {league_id},
                                !.tried = @ \cup TriedIn(res.items, me.today, now)]
                ELSE [me EXCEPT !.bad = @ \cup {league_id}]
       IN  /\ SCHEDULED_KEYS' = st.keys
           /\ jobs' = [j \in DOMAIN st.jobs |->
                        IF j \in DOMAIN jobs THEN st.jobs[j]
                        ELSE [st.jobs[j] EXCEPT !.subs0 = SUBSCRIBERS, !.by = p]]
           /\ pulls' = [pulls EXCEPT ![p] =
                          IF res.ok THEN ResumeLoop(q, LEAGUES_CACHE)
                          ELSE OnFetchError(q, LEAGUES_CACHE)]
    /\ UNCHANGED <<now, ahead, feed, LEAGUES_CACHE, SUBSCRIBERS, triggers>>

\* What a send of the digest does to the loop of lines 202-206: the except
\* clause logs a failure and the loop goes on.
AfterDigestSend(me, ok) ==
    LET q == IF ok THEN me ELSE [me EXCEPT !.failed = @ \cup {me.snap[me.si]}]
    IN  IF me.si = Len(me.snap) THEN Ended(q, "done") ELSE [q EXCEPT !.si = @ + 1]

\* One send_message of the digest returns or raises.
DigestSend(p, ok) ==
    /\ pulls[p].pc = "digest"
    /\ pulls' = [pulls EXCEPT ![p] = AfterDigestSend(@, ok)]
    /\ UNCHANGED <<now, ahead, feed, LEAGUES_CACHE, SUBSCRIBERS, SCHEDULED_KEYS, jobs, triggers>>

----------------------------------------------------------------------------
(* send_reminder_job                                                       *)

\* A job that broadcasts to the subscribers of the time it was scheduled.
AudienceAtSchedule(job, subs) == ListOf(job.subs0)

\* for chat_id in list(SUBSCRIBERS): the destinations of one firing
Audience(job, subs) == ListOf(subs)

Fired(job) ==
    [job EXCEPT !.state = "done", !.snap = <<>>, !.i = 0, !.failed = {},
                !.subs0 = {}]

Running == { j \in DOMAIN jobs : jobs[j].state = "running" }

\* The scheduler runs the callback of a due reminder job, up to its first send.
FireReminder(j) ==
    /\ Due(j)
    /\ Cardinality(Running) < MaxRunning
    /\ LET snap == Audience(jobs[j], SUBSCRIBERS)
       IN  jobs' = [jobs EXCEPT ![j] =
                      IF snap = <<>> THEN Fired(@)
                      ELSE [@ EXCEPT !.state = "running", !.snap = snap, !.i = 1]]
    /\ UNCHANGED <<now, ahead, feed, LEAGUES_CACHE, SUBSCRIBERS, SCHEDULED_KEYS, triggers, pulls>>

\* A broadcast that walks the subscriber set itself, not a copy of it.
AfterSendLive(job, ok) ==
    LET live == ListOf(SUBSCRIBERS)
    IN  IF job.i >= Len(live) THEN Fired(job)
        ELSE [job EXCEPT !.snap = live, !.i = @ + 1]

\* A broadcast that a failed send ends.
AfterSendAbort(job, ok) ==
    IF ~ok THEN Fired(job)
    ELSE IF job.i = Len(job.snap) THEN Fired(job) ELSE [job EXCEPT !.i = @ + 1]

\* What a failed send does to the loop: the except clause logs and goes on.
AfterSend(job, ok) ==
    LET q == IF ok THEN job ELSE [job EXCEPT !.failed = @ \cup {job.snap[job.i]}]
    IN  IF job.i = Len(job.snap) THEN Fired(q) ELSE [q EXCEPT !.i = @ + 1]

\* One send_message of a reminder returns or raises (lines 156-160).
ReminderSend(j, ok) ==
    /\ jobs[j].state = "running"
    /\ jobs' = [jobs EXCEPT ![j] = AfterSend(@, ok)]
    /\ UNCHANGED <<now, ahead, feed, LEAGUES_CACHE, SUBSCRIBERS, SCHEDULED_KEYS, triggers, pulls>>

----------------------------------------------------------------------------
(* Commands                                                                *)

liveon(chat) ==
    /\ CommandsIdle
    /\ SUBSCRIBERS' = SUBSCRIBERS \cup {chat}
    /\ UNCHANGED <<now, ahead, feed, LEAGUES_CACHE, SCHEDULED_KEYS, jobs, triggers, pulls>>

liveoff(chat) ==
    /\ CommandsIdle
    /\ SUBSCRIBERS' = SUBSCRIBERS \ {chat}
    /\ UNCHANGED <<now, ahead, feed, LEAGUES_CACHE, SCHEDULED_KEYS, jobs, triggers, pulls>>

DailyJobs == { k \in DOMAIN triggers : triggers[k].name.tag = "autoday-pull" }

\* run_daily adds a job; nothing looks for one that is already there.
AddDaily(queue, t) == Append(queue, DailyJob(t))

autoday_on ==
    /\ CommandsIdle
    /\ Cardinality(DailyJobs) < MaxDaily
    /\ triggers' = AddDaily(triggers, now)
    /\ UNCHANGED <<now, ahead, feed, LEAGUES_CACHE, SUBSCRIBERS, SCHEDULED_KEYS, jobs, pulls>>

\* A removal loop without the test of the name.
AnyNameMatches(name, tag) == TRUE

\* for j in job_queue.jobs(): if j.name == "autoday-pull": j.schedule_removal()
NameMatches(name, tag) == name.tag = tag

\* A removal that stops at the first job of that name.
RemoveFirstNamed(queue, tag) ==
    LET S == { k \in DOMAIN queue : NameMatches(queue[k].name, tag) }
    IN  IF S = {} THEN queue ELSE Without(queue, Min(S))

RemoveNamed(queue, tag) ==
    LET Keep(job) == ~NameMatches(job.name, tag) IN SelectSeq(queue, Keep)

MarkRemoved(queue, tag) ==
    [j \in DOMAIN queue |->
        IF queue[j].state = "active" /\ NameMatches(queue[j].name, tag)
        THEN [queue[j] EXCEPT !.state = "removed"]
        ELSE queue[j]]

autoday_off ==
    /\ CommandsIdle
    /\ triggers' = RemoveNamed(triggers, "autoday-pull")
    /\ jobs' = MarkRemoved(jobs, "autoday-pull")
    /\ UNCHANGED <<now, ahead, feed, LEAGUES_CACHE, SUBSCRIBERS, SCHEDULED_KEYS, pulls>>

----------------------------------------------------------------------------
(* Specifications                                                          *)

\* The fetches of a suspended cycle return.
Fetches ==
    \/ \E p \in DOMAIN pulls :
         \E res \in LeagueResponses(COUNTRIES[IF pulls[p].pc = "leagues" THEN pulls[p].ci ELSE 1]) :
            LeaguesReturn(p, res)
    \/ \E p \in DOMAIN pulls :
         \E res \in FixtureResponses(IF pulls[p].pc = "fixtures"
                                     THEN pulls[p].leagues[pulls[p].li].id ELSE 1) :
            FixturesReturn(p, res)

\* Nobody has subscribed: boot, manual and daily cycles overlap and repeat,
\* the provider's content is chosen afresh at every fetch.
Next ==
    \/ Tick
    \/ \E k \in DOMAIN triggers : FireBoot(k)
    \/ \E k \in DOMAIN triggers : FireDaily(k)
    \/ today_fixtures
    \/ Fetches
    \/ \E j \in DOMAIN jobs : FireReminder(j)
    \/ autoday_on
    \/ autoday_off

Spec == Init /\ [][Next]_vars

\* The provider serves the same fixture lists all along (fetches may still
\* fail); boot and manual cycles.
NextFeed ==
    \/ Tick
    \/ \E k \in DOMAIN triggers : FireBoot(k)
    \/ today_fixtures
    \/ Fetches
    \/ \E j \in DOMAIN jobs : FireReminder(j)

SpecFeed == InitFeed /\ [][NextFeed]_vars

\* Chats subscribe and unsubscribe around the boot cycle and the reminders
\* it schedules; sends may fail.
NextCast ==
    \/ Tick
    \/ \E k \in DOMAIN triggers : FireBoot(k)
    \/ Fetches
    \/ \E p \in DOMAIN pulls : \E ok \in BOOLEAN : DigestSend(p, ok)
    \/ \E j \in DOMAIN jobs : FireReminder(j)
    \/ \E j \in DOMAIN jobs : \E ok \in BOOLEAN : ReminderSend(j, ok)
    \/ \E chat \in Chats : liveon(chat)
    \/ \E chat \in Chats : liveoff(chat)

SpecCast == Init /\ [][NextCast]_vars

\* One chat subscribes and unsubscribes while boot and manual cycles overlap.
NextSubs ==
    \/ Tick
    \/ \E k \in DOMAIN triggers : FireBoot(k)
    \/ today_fixtures
    \/ Fetches
    \/ \E p \in DOMAIN pulls : \E ok \in BOOLEAN : DigestSend(p, ok)
    \/ \E j \in DOMAIN jobs : FireReminder(j)
    \/ \E j \in DOMAIN jobs : \E ok \in BOOLEAN : ReminderSend(j, ok)
    \/ liveon(Min(Chats))
    \/ liveoff(Min(Chats))

SpecSubs == InitSubs /\ [][NextSubs]_vars

\* The daily pull is switched on and off; daily and manual cycles.
NextDaily ==
    \/ Tick
    \/ \E k \in DOMAIN triggers : FireDaily(k)
    \/ today_fixtures
    \/ Fetches
    \/ \E j \in DOMAIN jobs : FireReminder(j)
    \/ autoday_on
    \/ autoday_off

SpecDaily == InitDaily /\ [][NextDaily]_vars

\* The reminders of two fixtures with one kickoff, scheduled by the boot
\* cycle, while one chat subscribes and unsubscribes and sends may fail.
NextLive ==
    \/ Tick
    \/ \E k \in DOMAIN triggers : FireBoot(k)
    \/ Fetches
    \/ \E p \in DOMAIN pulls : \E ok \in BOOLEAN : DigestSend(p, ok)
    \/ \E j \in DOMAIN jobs : FireReminder(j)
    \/ \E j \in DOMAIN jobs : \E ok \in BOOLEAN : ReminderSend(j, ok)
    \/ liveon(Min(Chats))
    \/ liveoff(Min(Chats))

\* Every kind of operation: the daily pull is switched on and off, daily
\* cycles run, one chat subscribes and unsubscribes, reminders and summaries
\* are sent.
NextAll ==
    \/ Tick
    \/ \E k \in DOMAIN triggers : FireDaily(k)
    \/ Fetches
    \/ \E p \in DOMAIN pulls : \E ok \in BOOLEAN : DigestSend(p, ok)
    \/ \E j \in DOMAIN jobs : FireReminder(j)
    \/ \E j \in DOMAIN jobs : \E ok \in BOOLEAN : ReminderSend(j, ok)
    \/ liveon(Min(Chats))
    \/ liveoff(Min(Chats))
    \/ autoday_on
    \/ autoday_off

SpecAll == InitAll /\ [][NextAll]_vars

\* The job slots the two fixtures can fill.
LiveJobs == 1 .. (2 * Len(REMINDER_OFFSETS))

\* The scheduler runs every due job, and every send_message call returns or
\* raises (api requests time out).
SpecLive ==
    /\ InitLive /\ [][NextLive]_vars
    /\ \A j \in LiveJobs : WF_vars(j \in DOMAIN jobs /\ FireReminder(j))
    /\ \A j \in LiveJobs :
          WF_vars(j \in DOMAIN jobs /\ \E ok \in BOOLEAN : ReminderSend(j, ok))

----------------------------------------------------------------------------
(* Properties                                                              *)

FixtureIds == UNION { { L[n].id : n \in DOMAIN L } : L \in FixtureLists }

Keys == { job_key(f, REMINDER_OFFSETS[n]) : f \in FixtureIds, n \in DOMAIN REMINDER_OFFSETS }

\* The key a reminder job was scheduled for, read off its name "fx:id:mins".
KeyOf(job) == <<job.name.fixture_id, job.name.offset>>

JobsFor(k) == { j \in DOMAIN jobs : KeyOf(jobs[j]) = k }

\* The kickoff of a fixture on the Dubai clock, from the provider's data.
TrueKickoff(f) == KickoffUTC(f) + TZ_OFFSET

KeysOfFixture(f) == { k \in Keys : k[1] = f }

NewJobs == (DOMAIN jobs') \ (DOMAIN jobs)

NewKeys == SCHEDULED_KEYS' \ SCHEDULED_KEYS

\* C1: no duplicate delivery.  Among all the reminder jobs ever added to the
\* job queue (waiting, running or fired), at most one is for a given fixture
\* and offset, whatever cycles ran and whatever they fetched.
C1_NoDuplicateJob == \A k \in Keys : Cardinality(JobsFor(k)) <= 1

\* A cycle found a key in the ledger and scheduled nothing for it; the one
\* job of that key has fired since, and the cycle is still running.
C1_Witness ==
    \E q \in DOMAIN pulls :
        /\ pulls[q].total_jobs = 0
        /\ \E k \in pulls[q].tried : \E j \in JobsFor(k) : jobs[j].state = "done"

\* C2: when two cycles that run at the same time both reach the ledger check
\* for the same fixture and offset, one cycle reserved the key and exactly one
\* job exists for it.
C2_OneReservationWins ==
    \A p, q \in DOMAIN pulls :
        p # q =>
            \A k \in pulls[p].tried \cap pulls[q].tried :
                /\ k \in SCHEDULED_KEYS
                /\ Cardinality(JobsFor(k)) = 1
                /\ \E r \in DOMAIN pulls : \A j \in JobsFor(k) : jobs[j].by = r

\* Two suspended cycles have both planned the same key, and one of the two
\* scheduled its job.
C2_Witness ==
    \E p, q \in DOMAIN pulls :
        /\ p # q /\ InFlight(pulls[p]) /\ InFlight(pulls[q])
        /\ \E k \in pulls[p].tried \cap pulls[q].tried :
              \E j \in JobsFor(k) : jobs[j].by = p /\ pulls[q].total_jobs = 0

\* Did cycle q start after cycle p had ended, and fetch the fixtures of the
\* same leagues?  Under SpecFeed the lists fetched are then the same.
RePull(p, q) == p \in pulls[q].after /\ pulls[q].got = pulls[p].got

\* Cycle q has scheduled no job, so that no key in the ledger is its own.
AddedNothing(q) ==
    /\ pulls[q].total_jobs = 0
    /\ \A k \in SCHEDULED_KEYS : \A j \in JobsFor(k) : jobs[j].by # q

\* C3 as stated: a cycle that runs after another one with identical fetched
\* fixture data schedules no job and adds no key.
C3_RePullSchedulesNothing ==
    \A p, q \in DOMAIN pulls : RePull(p, q) => AddedNothing(q)

\* C3 as amended: a cycle that runs after another one with identical fetched
\* fixture data, and that read the same local date as "today", schedules no
\* job and adds no key.
C3_RePullSameDay ==
    \A p, q \in DOMAIN pulls :
        RePull(p, q) /\ pulls[q].today = pulls[p].today => AddedNothing(q)

\* A second cycle has completed on the same day with the same fetched lists
\* as a first one that scheduled jobs.
C3_Witness ==
    \E p, q \in DOMAIN pulls :
        /\ RePull(p, q) /\ pulls[q].today = pulls[p].today
        /\ pulls[q].pc = "done" /\ pulls[q].got # {}
        /\ pulls[p].total_jobs > 0

\* C4: past-window skip.  A step adds a job, or a ledger key, for offset m of
\* a fixture only if kickoff - m is later than now; each new key comes with
\* its job, due at kickoff - m.
C4_PastWindowSkip ==
    [][ /\ \A j \in NewJobs :
              /\ TrueKickoff(jobs'[j].name.fixture_id) - jobs'[j].name.offset > now
              /\ jobs'[j].when = TrueKickoff(jobs'[j].name.fixture_id) - jobs'[j].name.offset
        /\ \A k \in NewKeys :
              /\ TrueKickoff(k[1]) - k[2] > now
              /\ \E j \in NewJobs : KeyOf(jobs'[j]) = k
      ]_vars

\* A cycle started at 13:45 fetched the 14:00 fixture: the kickoff reminder
\* is scheduled, the 60 and 15 minute ones are not and have no ledger entry.
C4_Witness ==
    \E p \in DOMAIN pulls :
        /\ pulls[p].slot = TrueKickoff(1) - 15
        /\ \E l \in pulls[p].got : feed.fixtures[l] = <<Fx(1)>>
        /\ \E j \in JobsFor(job_key(1, 0)) : jobs[j].by = p
        /\ KeysOfFixture(1) \cap SCHEDULED_KEYS = {job_key(1, 0)}
        /\ JobsFor(job_key(1, 60)) = {} /\ JobsFor(job_key(1, 15)) = {}

\* C5: started-fixture skip.  Once a fixture's kickoff is not later than now,
\* no step adds a job or a ledger key for it, and a cycle's count of
\* scheduled jobs grows by exactly the jobs it added: by 0 for such a fixture.
C5_StartedFixtureSkip ==
    [][ /\ \A f \in FixtureIds :
              TrueKickoff(f) <= now =>
                  /\ \A j \in NewJobs : jobs'[j].name.fixture_id # f
                  /\ \A k \in NewKeys : k[1] # f
        /\ \A p \in DOMAIN pulls :
              pulls'[p].total_jobs =
                  pulls[p].total_jobs + Cardinality({ j \in NewJobs : jobs'[j].by = p })
      ]_vars

\* A cycle started at the 14:00 kickoff fetched that fixture on its day:
\* it reports 0 jobs and the ledger holds no key of the fixture.
C5_Witness ==
    \E p \in DOMAIN pulls :
        /\ pulls[p].slot >= TrueKickoff(1)
        /\ pulls[p].today = LocalDate(TrueKickoff(1))
        /\ \E l \in pulls[p].got : feed.fixtures[l] = <<Fx(1)>>
        /\ pulls[p].total_jobs = 0
        /\ KeysOfFixture(1) \cap SCHEDULED_KEYS = {}

\* The valid league ids of the cache entries a cycle's loop iterates.
LeaguesOf(p) ==
    { l \in Leagues : \E c \in 1 .. pulls[p].used :
                        \E n \in DOMAIN LEAGUES_CACHE[c].leagues :
                            /\ ValidItem(LEAGUES_CACHE[c].leagues[n])
                            /\ LEAGUES_CACHE[c].leagues[n].id = l }

\* Every fixture of the list served for league B that a cycle with this
\* "today" plans has, for each offset still ahead of now, its key in the
\* ledger and a job.
LeagueScheduled(B, today) ==
    \A n \in DOMAIN feed.fixtures[B] :
        LET fx == feed.fixtures[B][n]
        IN  Planned(fx, today) /\ FixtureFieldsOk(fx) =>
                \A m \in DOMAIN REMINDER_OFFSETS :
                    TrueKickoff(fx.id) - REMINDER_OFFSETS[m] > now =>
                        /\ job_key(fx.id, REMINDER_OFFSETS[m]) \in SCHEDULED_KEYS
                        /\ JobsFor(job_key(fx.id, REMINDER_OFFSETS[m])) # {}

\* C6: partial fetch failure isolation.  In a cycle where the fixture fetch
\* of some league failed, every league whose fetch succeeded has its
\* plannable fixtures scheduled, and the cycle that completes has fetched,
\* or failed to fetch, every valid league of every cached country, whether
\* the failure came before or after.
C6_FetchFailureIsolated ==
    \A p \in DOMAIN pulls :
        pulls[p].bad # {} =>
            /\ \A B \in pulls[p].got : LeagueScheduled(B, pulls[p].today)
            /\ pulls[p].pc \in {"digest", "done"} =>
                  /\ pulls[p].countries_touched = pulls[p].used
                  /\ LeaguesOf(p) \subseteq pulls[p].got \cup pulls[p].bad

\* A completed cycle failed to fetch league 1, of the first cached country,
\* then fetched league 2 and scheduled its fixture's reminders.
C6_Witness ==
    \E p \in DOMAIN pulls :
        /\ pulls[p].pc = "done" /\ pulls[p].bad = {1} /\ pulls[p].got = {2}
        /\ LEAGUES_CACHE # <<>> /\ LEAGUES_CACHE[1].country = COUNTRIES[1]
        /\ \E j \in DOMAIN jobs :
              /\ jobs[j].by = p
              /\ \E n \in DOMAIN feed.fixtures[2] :
                    feed.fixtures[2][n].id = jobs[j].name.fixture_id

\* C7: partial delivery failure isolation.  A broadcast suspended at a send
\* goes on to the next destination of its list whether the send fails or
\* not, and ends only after the send to the last one; no step leaves a
\* cycle's summary broadcast by an exception.
C7_DeliveryFailureIsolated ==
    [][ /\ \A j \in DOMAIN jobs :
              jobs[j].state = "running" =>
                  IF jobs[j].i < Len(jobs[j].snap)
                  THEN /\ jobs'[j].state = "running"
                       /\ jobs'[j].snap = jobs[j].snap
                       /\ jobs'[j].i \in {jobs[j].i, jobs[j].i + 1}
                  ELSE jobs'[j].state \in {"running", "done"}
        /\ \A p \in DOMAIN pulls :
              pulls[p].pc = "digest" =>
                  IF pulls[p].si < Len(pulls[p].snap)
                  THEN /\ pulls'[p].pc = "digest"
                       /\ pulls'[p].snap = pulls[p].snap
                       /\ pulls'[p].si \in {pulls[p].si, pulls[p].si + 1}
                  ELSE pulls'[p].pc \in {"digest", "done"}
      ]_vars

\* A reminder's send to the first destination failed and the broadcast is
\* at the send to the second one.
C7_Witness ==
    \E j \in DOMAIN jobs :
        /\ jobs[j].state = "running" /\ jobs[j].i = 2
        /\ jobs[j].snap[1] \in jobs[j].failed

\* C8: membership at fire time.  The destinations of a reminder job that
\* fires are the subscribers of that moment: a job starts its broadcast
\* with exactly the current subscriber set, and fires without any send
\* only if that set is empty.
C8_MembershipAtFire ==
    [][ \A j \in DOMAIN jobs :
            jobs[j].state = "active" /\ jobs'[j].state # "active" =>
                /\ jobs'[j].state = "running" => Range(jobs'[j].snap) = SUBSCRIBERS
                /\ jobs'[j].state = "done" => SUBSCRIBERS = {}
                /\ jobs'[j].state \in {"running", "done"}
      ]_vars

\* A reminder is being sent to a chat that subscribed after the job was
\* scheduled, and not to one that was subscribed then and has left since.
C8_Witness ==
    \E j \in DOMAIN jobs :
        /\ jobs[j].state = "running"
        /\ Range(jobs[j].snap) \ jobs[j].subs0 # {}
        /\ jobs[j].subs0 \ Range(jobs[j].snap) # {}

\* Does this step end the planning of cycle p?
EndsPlanning(p) ==
    /\ pulls[p].pc \in {"leagues", "fixtures"}
    /\ pulls'[p].pc \notin {"leagues", "fixtures"}

\* C9: summary condition.  A cycle whose planning ends broadcasts its
\* summary exactly if it scheduled at least one job and a subscriber exists
\* at that moment.
C9_SummaryCondition ==
    [][ \A p \in DOMAIN pulls :
            EndsPlanning(p) =>
                (pulls'[p].pc = "digest" <=>
                    pulls'[p].total_jobs > 0 /\ SUBSCRIBERS # {})
      ]_vars

\* C10: once per day.  No two cycles started by the daily trigger were
\* started for the same day's pull time.
C10_OneDailyCyclePerDay ==
    \A p, q \in DOMAIN pulls :
        /\ pulls[p].trigger = "daily" /\ pulls[q].trigger = "daily"
        /\ pulls[p].slot = pulls[q].slot
        => p = q

\* Does this step start a cycle from the daily trigger?
StartsDaily ==
    \E p \in (DOMAIN pulls') \ (DOMAIN pulls) : pulls'[p].trigger = "daily"

\* C11: disabling the daily pull.  /autoday_off leaves no daily job in the
\* queue, however many there were and also when there was none; a cycle
\* starts from the daily trigger only while a daily job is in the queue, and
\* only /autoday_on puts one there.
C11_DisableRemovesAll ==
    [][ /\ autoday_off => DailyJobs' = {}
        /\ StartsDaily => DailyJobs # {}
        /\ DailyJobs = {} /\ DailyJobs' # {} => triggers' = AddDaily(triggers, now)
      ]_vars

\* The daily pull had been enabled twice (two cycles ran for one pull time)
\* and no daily job is left.
C11_Witness ==
    /\ DailyJobs = {}
    /\ \E p, q \in DOMAIN pulls :
          /\ p # q
          /\ pulls[p].trigger = "daily" /\ pulls[q].trigger = "daily"
          /\ pulls[p].slot = pulls[q].slot

\* C12: every job fires exactly once.  A reminder job never leaves the
\* waiting state before its instant, never returns to it and never leaves
\* the fired state; and once the clock has reached the instant of a job, the
\* job is eventually fired.
C12_FiresExactlyOnce ==
    /\ [][ \A j \in DOMAIN jobs :
              /\ jobs[j].state = "active" /\ jobs'[j].state # "active" =>
                    now >= jobs[j].when /\ jobs'[j].state \in {"running", "done"}
              /\ jobs[j].state = "running" => jobs'[j].state \in {"running", "done"}
              /\ jobs[j].state = "done" => jobs'[j].state = "done"
         ]_vars
    /\ \A j \in LiveJobs :
          (j \in DOMAIN jobs /\ now >= jobs[j].when) ~>
              (j \in DOMAIN jobs /\ jobs[j].state = "done")

\* The kickoff reminders of two fixtures, due at the same instant, have both
\* fired.
C12_Witness ==
    \E i, j \in DOMAIN jobs :
        /\ jobs[i].name.fixture_id # jobs[j].name.fixture_id
        /\ jobs[i].when = jobs[j].when
        /\ jobs[i].state = "done" /\ jobs[j].state = "done"

\* C13: snapshot isolation.  A step that changes the subscriber set leaves
\* every broadcast in progress as it is; a broadcast keeps the list it took
\* when it started, and ends, normally, at the end of that list.
C13_BroadcastSnapshot ==
    [][ /\ SUBSCRIBERS' # SUBSCRIBERS =>
              /\ \A j \in DOMAIN jobs : jobs[j].state = "running" => jobs'[j] = jobs[j]
              /\ \A p \in DOMAIN pulls : pulls[p].pc = "digest" => pulls'[p] = pulls[p]
        /\ \A j \in DOMAIN jobs :
              jobs[j].state = "running" =>
                  \/ jobs'[j].state = "running" /\ jobs'[j].snap = jobs[j].snap
                  \/ jobs'[j].state = "done" /\ jobs[j].i = Len(jobs[j].snap)
        /\ \A p \in DOMAIN pulls :
              pulls[p].pc = "digest" =>
                  \/ pulls'[p].pc = "digest" /\ pulls'[p].snap = pulls[p].snap
                  \/ pulls'[p].pc = "done" /\ pulls[p].si = Len(pulls[p].snap)
      ]_vars

\* While a reminder is suspended at a send, a chat of its list has left and
\* a chat outside its list has subscribed.
C13_Witness ==
    \E j \in DOMAIN jobs :
        /\ jobs[j].state = "running"
        /\ jobs[j].snap[jobs[j].i] \notin SUBSCRIBERS
        /\ SUBSCRIBERS \ Range(jobs[j].snap) # {}

\* C14: a league fetch failure never aborts a cycle.  Whatever fetches
\* failed and whatever other cycle ran meanwhile, no cycle is left by an
\* exception.
C14_CycleNeverRaises ==
    \A p \in DOMAIN pulls : pulls[p].pc # "raised"

\* The place of an offset in the configured list.
OffsetIndex(mins) == CHOOSE n \in DOMAIN REMINDER_OFFSETS : REMINDER_OFFSETS[n] = mins

\* The leagues whose fixture list cycle p takes in in this step.
FetchedNow(p) == pulls'[p].got \ pulls[p].got

\* C15: planner completeness.  When a cycle takes in a fetched fixture list,
\* each fixture it plans whose kickoff K is later than now gets, for every
\* offset m with K - m later than now and no key in the ledger, exactly one
\* new waiting job for key (fixture, m) due at K - m; the new jobs of a
\* fixture are queued in the configured order of the offsets, after the jobs
\* already there; and the cycle's count grows by the number of new jobs.
C15_PlannerComplete ==
    [][ \A p \in DOMAIN pulls : \A B \in FetchedNow(p) :
          /\ \A n \in DOMAIN feed.fixtures[B] :
                LET fx == feed.fixtures[B][n]
                    K == TrueKickoff(fx.id)
                IN  Planned(fx, pulls[p].today) /\ FixtureFieldsOk(fx) /\ K > now =>
                      \A m \in Range(REMINDER_OFFSETS) :
                          K - m > now /\ job_key(fx.id, m) \notin SCHEDULED_KEYS =>
                              /\ job_key(fx.id, m) \in SCHEDULED_KEYS'
                              /\ Cardinality({ j \in NewJobs :
                                     KeyOf(jobs'[j]) = job_key(fx.id, m) }) = 1
                              /\ \A j \in NewJobs :
                                     KeyOf(jobs'[j]) = job_key(fx.id, m) =>
                                         /\ jobs'[j].when = K - m
                                         /\ jobs'[j].state = "active"
          /\ \A i, j \in NewJobs :
                i < j /\ jobs'[i].name.fixture_id = jobs'[j].name.fixture_id =>
                    OffsetIndex(jobs'[i].name.offset) < OffsetIndex(jobs'[j].name.offset)
          /\ \A j \in DOMAIN jobs : jobs'[j] = jobs[j]
          /\ pulls'[p].total_jobs = pulls[p].total_jobs + Cardinality(NewJobs)
      ]_vars

\* A cycle started at 12:30 took in the 14:00 fixture on an empty ledger:
\* its jobs are due at 13:00, 13:45 and 14:00, and it counts three.
C15_Witness ==
    \E p \in DOMAIN pulls :
        /\ pulls[p].slot = TrueKickoff(1) - 90 /\ pulls[p].total_jobs = 3
        /\ Len(jobs) = 3
        /\ \A n \in DOMAIN REMINDER_OFFSETS :
              /\ KeyOf(jobs[n]) = job_key(1, REMINDER_OFFSETS[n])
              /\ jobs[n].when = TrueKickoff(1) - REMINDER_OFFSETS[n]
              /\ jobs[n].by = p /\ jobs[n].state = "active"

\* C16: date filter.  Every job and every ledger key a step adds is for a
\* fixture whose kickoff, on the Dubai clock, falls on the date the adding
\* cycle read as "today" when it started.
C16_DateFilter ==
    [][ /\ \A j \in NewJobs :
              LocalDate(TrueKickoff(jobs'[j].name.fixture_id)) = pulls[jobs'[j].by].today
        /\ \A k \in NewKeys :
              \E j \in NewJobs : KeyOf(jobs'[j]) = k
      ]_vars

\* A completed cycle fetched, before its kickoff, a well-formed fixture of
\* the day after its "today"; the ledger holds no key of that fixture.
C16_Witness ==
    \E p \in DOMAIN pulls :
        /\ pulls[p].pc = "done"
        /\ pulls[p].today # LocalDate(TrueKickoff(2))
        /\ \E B \in pulls[p].got : \E n \in DOMAIN feed.fixtures[B] :
              feed.fixtures[B][n] = Fx(2)
        /\ now < TrueKickoff(2) - Min(Range(REMINDER_OFFSETS))
        /\ KeysOfFixture(2) \cap SCHEDULED_KEYS = {}

\* C17: disabling the daily pull touches nothing else.  /autoday_off leaves
\* every reminder job (waiting, in flight or fired), the ledger, the
\* subscriber set and the running cycles as they are.
C17_DisableFrame ==
    [][ autoday_off =>
            /\ jobs' = jobs
            /\ SCHEDULED_KEYS' = SCHEDULED_KEYS
            /\ SUBSCRIBERS' = SUBSCRIBERS
            /\ pulls' = pulls
      ]_vars

\* The daily pull was on, its cycle scheduled reminders, and it is off
\* again: one reminder has fired, one is being sent and one is waiting.
C17_Witness ==
    /\ DailyJobs = {}
    /\ \E p \in DOMAIN pulls :
          /\ pulls[p].trigger = "daily"
          /\ \E i, j, k \in DOMAIN jobs :
                /\ jobs[i].by = p /\ jobs[j].by = p /\ jobs[k].by = p
                /\ jobs[i].state = "done"
                /\ jobs[j].state = "running"
                /\ jobs[k].state = "active"

\* C18: the ledger only grows.  No step (a cycle's fetch returning, a reminder
\* firing or being sent, /liveon, /liveoff, /autoday_on, /autoday_off, the
\* clock) removes a key from the ledger.
C18_LedgerOnlyGrows ==
    [][ SCHEDULED_KEYS \subseteq SCHEDULED_KEYS' ]_vars

\* All the reminders of a fixture have fired, the daily pull has been
\* switched off, a second cycle has run since, and the keys are all there.
C18_Witness ==
    /\ SCHEDULED_KEYS = KeysOfFixture(1)
    /\ \A j \in DOMAIN jobs : jobs[j].state = "done"
    /\ Len(jobs) = Len(REMINDER_OFFSETS)
    /\ DailyJobs = {}
    /\ \E p, q \in DOMAIN pulls : p \in pulls[q].after /\ pulls[q].pc = "done"

\* C19: league metadata is fetched once.  No two cycles that are caching
\* leagues have both fetched and stored the league list of the same country.
C19_LeaguesFetchedOnce ==
    \A p, q \in DOMAIN pulls :
        p # q => pulls[p].fetched \cap pulls[q].fetched = {}

\* The jobs cycle p has added.
JobsBy(p) == { j \in DOMAIN jobs : jobs[j].by = p }

\* C20: ledger and jobs correspond one to one.  Every key of the ledger has
\* exactly one job ever created for it, every job ever created has its key
\* in the ledger, there are as many jobs as keys, and the count of each
\* cycle is the number of jobs, each with a key of its own, it has added.
C20_LedgerMatchesJobs ==
    /\ \A k \in SCHEDULED_KEYS : Cardinality(JobsFor(k)) = 1
    /\ \A j \in DOMAIN jobs : KeyOf(jobs[j]) \in SCHEDULED_KEYS
    /\ Len(jobs) = Cardinality(SCHEDULED_KEYS)
    /\ \A p \in DOMAIN pulls :
          /\ pulls[p].total_jobs = Cardinality(JobsBy(p))
          /\ pulls[p].total_jobs = Cardinality({ KeyOf(jobs[j]) : j \in JobsBy(p) })

\* Two cycles have each added jobs, some of which have fired since.
C20_Witness ==
    /\ \E p, q \in DOMAIN pulls :
          p # q /\ pulls[p].total_jobs > 0 /\ pulls[q].total_jobs > 0
    /\ \E j \in DOMAIN jobs : jobs[j].state = "done"
    /\ \E j \in DOMAIN jobs : jobs[j].state = "active"

====
